---- MODULE Spec2Model ----
(***************************************************************************)
(* A model of the recipe application: the AuthProvider session store and   *)
(* the pages that use it, the list/detail record mappers, the detail page  *)
(* fetch (client and server variant) and the AddRecipePage submit handler. *)
(*                                                                         *)
(* JavaScript values are tagged records [t, v] so that the operators ||,   *)
(* ??, instanceof and === can be computed as the language computes them.   *)
(* Strings are sequences of one-character strings, so trim() and split()   *)
(* are computed, not assumed.                                              *)
(***************************************************************************)
EXTENDS Integers, Sequences, FiniteSets, TLC

VARIABLES
    \* identity provider and AuthProvider (src/unnamed/part_002)
    provUser, notifQ, authLoading, currentUser, route,
    loginOp, signupOp, logoutOp, profiles,
    \* record mappers applied to one document (src/unnamed/part_001)
    doc, which, mapped, remapped,
    \* the recipes collection of the document store
    recipesCol,
    \* recipe detail page (src/unnamed/part_001)
    variant, getDocReq, recipe, detailLoading, detailError, notFoundPage,
    \* AddRecipePage (src/src/app/recipes/new/page.tsx)
    recipeName, ingredients, instructions, cookingTime, servings,
    imageUrl, categories, formLoading, formError, success, addDocReq,
    \* the client's clock, which Timestamp.now() reads
    now,
    \* RecipesPage (src/unnamed/part_001)
    recipes, listLoading, listError, getDocsReq

authVars == <<provUser, notifQ, authLoading, currentUser, route,
              loginOp, signupOp, logoutOp, profiles>>
mapVars == <<doc, which, mapped, remapped>>
detailVars == <<variant, getDocReq, recipe, detailLoading, detailError,
                notFoundPage>>
formVars == <<recipeName, ingredients, instructions, cookingTime, servings,
              imageUrl, categories>>
createVars == <<formLoading, formError, success, addDocReq>>
listVars == <<recipes, listLoading, listError, getDocsReq>>
vars == <<authVars, mapVars, recipesCol, detailVars, formVars, createVars,
          now, listVars>>

----------------------------------------------------------------------------
(* JavaScript values *)

Undefined == [t |-> "undefined", v |-> 0]
Null == [t |-> "null", v |-> 0]
Str(s) == [t |-> "string", v |-> s]
Num(n) == [t |-> "number", v |-> n]
Arr(a) == [t |-> "array", v |-> a]
\* a Firestore Timestamp and the Date its toDate() returns
Timestamp(n) == [t |-> "Timestamp", v |-> n]
Date(n) == [t |-> "Date", v |-> n]

\* ToBoolean: undefined, null, "" and 0 are falsy; arrays and objects truthy
Truthy(x) ==
    CASE x.t = "undefined" -> FALSE
      [] x.t = "null" -> FALSE
      [] x.t = "string" -> Len(x.v) > 0
      [] x.t = "number" -> x.v # 0
      [] OTHER -> TRUE

\* a || b
Or(a, b) == IF Truthy(a) THEN a ELSE b

\* a ?? b
Nullish(a, b) == IF a.t \in {"undefined", "null"} THEN b ELSE a

\* one-character strings that String.prototype.trim removes
IsSpace(c) == c = " "

RECURSIVE TrimStart(_)
TrimStart(s) ==
    IF s # <<>> /\ IsSpace(Head(s)) THEN TrimStart(Tail(s)) ELSE s

RECURSIVE TrimEnd(_)
TrimEnd(s) ==
    IF s # <<>> /\ IsSpace(s[Len(s)])
    THEN TrimEnd(SubSeq(s, 1, Len(s) - 1))
    ELSE s

\* s.trim()
Trim(s) == TrimEnd(TrimStart(s))

\* s.split(','): the pieces between commas; "" splits into [""]
RECURSIVE SplitFrom(_, _)
SplitFrom(s, cur) ==
    IF s = <<>> THEN <<cur>>
    ELSE IF Head(s) = "," THEN <<cur>> \o SplitFrom(Tail(s), <<>>)
    ELSE SplitFrom(Tail(s), Append(cur, Head(s)))

SplitComma(s) == SplitFrom(s, <<>>)

----------------------------------------------------------------------------
(* String literals used by the program and by the sample inputs *)

Soup == <<"S", "o", "u", "p">>
Salt == <<"S", "a", "l", "t">>
G == <<"g">>
Mix == <<"M", "i", "x">>
Blank == <<" ">>
Url == <<"h", "t", "t", "p">>
UntitledRecipe == <<"U", "n", "t", "i", "t", "l", "e", "d">>
Unknown == <<"u", "n", "k", "n", "o", "w", "n">>
EmptyString == <<>>

SaltIngredient == [name |-> Salt, quantity |-> 5, unit |-> G]

----------------------------------------------------------------------------
(* Record mappers *)

\* the raw document fields the mappers read, and a mapped Recipe's fields
DataFields == {"name", "ingredients", "instructions", "cookingTime",
               "servings", "userId", "imageUrl", "categories", "createdAt"}

\* a list mapper that copies userId without a default
ListMapper_NoUserIdDefault(d) ==
    [id |-> d.id,
     name |-> Or(d.name, Str(UntitledRecipe)),
     ingredients |-> Or(d.ingredients, Arr(<<>>)),
     instructions |-> Or(d.instructions, Arr(<<>>)),
     cookingTime |-> Nullish(d.cookingTime, Num(0)),
     servings |-> Nullish(d.servings, Num(0)),
     userId |-> d.userId,
     imageUrl |-> Or(d.imageUrl, Str(EmptyString)),
     categories |-> Or(d.categories, Arr(<<>>)),
     createdAt |-> IF d.createdAt.t = "Timestamp"
                   THEN Date(d.createdAt.v)
                   ELSE Undefined]

\* RecipesPage.fetchRecipes: querySnapshot.docs.map((doc) => ...)
ListMapper(d) ==
    [id |-> d.id,
     name |-> Or(d.name, Str(UntitledRecipe)),
     ingredients |-> Or(d.ingredients, Arr(<<>>)),
     instructions |-> Or(d.instructions, Arr(<<>>)),
     cookingTime |-> Nullish(d.cookingTime, Num(0)),
     servings |-> Nullish(d.servings, Num(0)),
     userId |-> Or(d.userId, Str(Unknown)),
     imageUrl |-> Or(d.imageUrl, Str(EmptyString)),
     categories |-> Or(d.categories, Arr(<<>>)),
     createdAt |-> IF d.createdAt.t = "Timestamp"
                   THEN Date(d.createdAt.v)
                   ELSE Undefined]

\* a detail mapper that converts createdAt the way the list mapper does
DetailMapper_ConvertsCreatedAt(d) ==
    [id |-> d.id,
     name |-> Or(d.name, Str(UntitledRecipe)),
     ingredients |-> Or(d.ingredients, Arr(<<>>)),
     instructions |-> Or(d.instructions, Arr(<<>>)),
     cookingTime |-> Nullish(d.cookingTime, Num(0)),
     servings |-> Nullish(d.servings, Num(0)),
     userId |-> Or(d.userId, Str(Unknown)),
     imageUrl |-> Or(d.imageUrl, Str(EmptyString)),
     categories |-> Or(d.categories, Arr(<<>>)),
     createdAt |-> IF d.createdAt.t = "Timestamp"
                   THEN Date(d.createdAt.v)
                   ELSE Undefined]

\* a server mapper that copies servings without a default
ServerMapper_NoServingsDefault(d) ==
    [id |-> d.id,
     name |-> Or(d.name, Str(UntitledRecipe)),
     ingredients |-> Or(d.ingredients, Arr(<<>>)),
     instructions |-> Or(d.instructions, Arr(<<>>)),
     cookingTime |-> Nullish(d.cookingTime, Num(0)),
     servings |-> d.servings,
     userId |-> Or(d.userId, Str(Unknown)),
     imageUrl |-> Or(d.imageUrl, Str(EmptyString)),
     categories |-> Or(d.categories, Arr(<<>>)),
     createdAt |-> Or(d.createdAt, Undefined)]

\* RecipeDetailPage.fetchRecipe (client component): fetchedRecipe
DetailMapper(d) ==
    [id |-> d.id,
     name |-> Or(d.name, Str(UntitledRecipe)),
     ingredients |-> Or(d.ingredients, Arr(<<>>)),
     instructions |-> Or(d.instructions, Arr(<<>>)),
     cookingTime |-> Nullish(d.cookingTime, Num(0)),
     servings |-> Nullish(d.servings, Num(0)),
     userId |-> Or(d.userId, Str(Unknown)),
     imageUrl |-> Or(d.imageUrl, Str(EmptyString)),
     categories |-> Or(d.categories, Arr(<<>>)),
     createdAt |-> Or(d.createdAt, Undefined)]

\* RecipeDetailPage (server component): recipe
ServerMapper(d) ==
    [id |-> d.id,
     name |-> Or(d.name, Str(UntitledRecipe)),
     ingredients |-> Or(d.ingredients, Arr(<<>>)),
     instructions |-> Or(d.instructions, Arr(<<>>)),
     cookingTime |-> Nullish(d.cookingTime, Num(0)),
     servings |-> Nullish(d.servings, Num(0)),
     userId |-> Or(d.userId, Str(Unknown)),
     imageUrl |-> Or(d.imageUrl, Str(EmptyString)),
     categories |-> Or(d.categories, Arr(<<>>)),
     createdAt |-> Or(d.createdAt, Undefined)]

----------------------------------------------------------------------------
(* The mappers applied to one raw document *)

Users == {"u1", "u2"}
None == "none"
\* a user's uid as a string value
Uid(u) == <<u>>

\* sample values of each raw field: absent, null, falsy and truthy ones
NameValues == {Undefined, Null, Str(EmptyString), Str(Soup)}
IngredientsValues == {Undefined, Null, Arr(<<>>), Arr(<<SaltIngredient>>)}
InstructionsValues == {Undefined, Arr(<<Mix>>)}
CookingTimeValues == {Undefined, Null, Num(0), Num(10)}
ServingsValues == {Undefined, Num(2)}
UserIdValues == {Undefined, Str(EmptyString), Str(Uid("u1"))}
ImageUrlValues == {Undefined, Str(EmptyString), Str(Url)}
CategoriesValues == {Undefined, Arr(<<Soup>>)}
CreatedAtValues == {Undefined, Null, Timestamp(1)}

RawDocuments ==
    [id : {1}, name : NameValues, ingredients : IngredientsValues,
     instructions : InstructionsValues, cookingTime : CookingTimeValues,
     servings : ServingsValues, userId : UserIdValues,
     imageUrl : ImageUrlValues, categories : CategoriesValues,
     createdAt : CreatedAtValues]

MapperIdle ==
    /\ doc = Undefined
    /\ which = None
    /\ mapped = Undefined
    /\ remapped = Undefined

InitMapper ==
    /\ doc \in RawDocuments
    /\ which = None
    /\ mapped = Undefined
    /\ remapped = Undefined

ApplyMapper(m, d) ==
    CASE m = "list" -> ListMapper(d)
      [] m = "detail" -> DetailMapper(d)
      [] m = "server" -> ServerMapper(d)

\* a document of the list scan is mapped
ApplyListMapper ==
    /\ which = None
    /\ which' = "list"
    /\ mapped' = ListMapper(doc)
    /\ UNCHANGED <<doc, remapped>>

\* the fetched document of the client detail page is mapped
ApplyDetailMapper ==
    /\ which = None
    /\ which' = "detail"
    /\ mapped' = DetailMapper(doc)
    /\ UNCHANGED <<doc, remapped>>

\* the fetched document of the server detail page is mapped
ApplyServerMapper ==
    /\ which = None
    /\ which' = "server"
    /\ mapped' = ServerMapper(doc)
    /\ UNCHANGED <<doc, remapped>>

\* the mapped Recipe, taken as a document again, goes through the same mapper
Remap ==
    /\ which # None
    /\ remapped = Undefined
    /\ remapped' = ApplyMapper(which, mapped)
    /\ UNCHANGED <<doc, which, mapped>>

----------------------------------------------------------------------------
(* Identity provider, AuthProvider and the pages that call it *)

\* the longest queue of undelivered session-change notifications
MaxPending == 2

Routes == {"/", "/login", "/signup", "/recipes", "/recipes/new"}

IdleOp == [state |-> "idle", user |-> None]

\* useState initial values of AuthProvider; the provider may hold a persisted
\* session, which the first onAuthStateChanged callback reports
InitAuth ==
    /\ provUser \in Users \cup {None}
    /\ notifQ = <<provUser>>
    /\ authLoading = TRUE
    /\ currentUser = None
    /\ route \in Routes
    /\ loginOp = IdleOp
    /\ signupOp = IdleOp
    /\ logoutOp = IdleOp
    /\ profiles = {}

\* the provider takes user u as its current user and queues the notification
\* of its observers when the user changed
ProviderSets(u) ==
    /\ provUser' = u
    /\ notifQ' = IF u = provUser THEN notifQ ELSE Append(notifQ, u)

ProviderCanSet(u) == u = provUser \/ Len(notifQ) < MaxPending

\* the onAuthStateChanged callback: setCurrentUser(user); setLoading(false)
AuthStateChanged ==
    /\ notifQ # <<>>
    /\ currentUser' = Head(notifQ)
    /\ authLoading' = FALSE
    /\ notifQ' = Tail(notifQ)
    /\ UNCHANGED <<provUser, route, loginOp, signupOp, logoutOp, profiles>>

\* AuthProvider renders {!loading && children}
ChildrenRendered == ~authLoading

\* what Navigation renders: nothing while loading, else the greeting with
\* the Logout button for a user and the Login and Sign Up links without one
NavigationRenders ==
    IF authLoading THEN "nothing"
    ELSE IF currentUser # None THEN "loggedIn"
    ELSE "loggedOut"

\* the links a rendered page offers; nothing is rendered while loading
Links ==
    IF authLoading THEN {}
    ELSE {"/", "/recipes"}
         \cup (IF currentUser = None THEN {"/login", "/signup"} ELSE {})
         \cup (IF route = "/recipes" THEN {"/recipes/new"} ELSE {})
         \cup (IF route = "/login" THEN {"/signup"} ELSE {})
         \cup (IF route = "/signup" THEN {"/login"} ELSE {})

FollowLink ==
    /\ \E r \in Links \ {route} : route' = r
    /\ UNCHANGED <<provUser, notifQ, authLoading, currentUser, loginOp,
                   signupOp, logoutOp, profiles>>

\* LoginPage and SignupPage: useEffect "Redirect if already logged in"
RedirectLoggedIn ==
    /\ route \in {"/login", "/signup"}
    /\ currentUser # None /\ ~authLoading
    /\ route' = "/recipes"
    /\ UNCHANGED <<provUser, notifQ, authLoading, currentUser, loginOp,
                   signupOp, logoutOp, profiles>>

\* a redirect that takes the absent user of the unresolved store for a
\* visitor without a session
RedirectToLogin_IgnoresLoading ==
    /\ route = "/recipes/new"
    /\ currentUser = None
    /\ route' = "/login"
    /\ UNCHANGED <<provUser, notifQ, authLoading, currentUser, loginOp,
                   signupOp, logoutOp, profiles>>

\* AddRecipePage: useEffect redirecting a visitor without a session
RedirectToLogin ==
    /\ route = "/recipes/new"
    /\ ~authLoading /\ currentUser = None
    /\ route' = "/login"
    /\ UNCHANGED <<provUser, notifQ, authLoading, currentUser, loginOp,
                   signupOp, logoutOp, profiles>>

\* LoginPage.handleSubmit up to "await login(email, password)"
LoginSubmit ==
    /\ route = "/login" /\ ~authLoading
    /\ loginOp.state \in {"idle", "error"}
    /\ \E u \in Users : loginOp' = [state |-> "pending", user |-> u]
    /\ UNCHANGED <<provUser, notifQ, authLoading, currentUser, route,
                   signupOp, logoutOp, profiles>>

\* signInWithEmailAndPassword succeeds
SignInResolves ==
    /\ loginOp.state = "pending"
    /\ ProviderCanSet(loginOp.user)
    /\ ProviderSets(loginOp.user)
    /\ loginOp' = [loginOp EXCEPT !.state = "resolved"]
    /\ UNCHANGED <<authLoading, currentUser, route, signupOp, logoutOp,
                   profiles>>

\* signInWithEmailAndPassword is rejected
SignInRejects ==
    /\ loginOp.state = "pending"
    /\ loginOp' = [loginOp EXCEPT !.state = "rejected"]
    /\ UNCHANGED <<provUser, notifQ, authLoading, currentUser, route,
                   signupOp, logoutOp, profiles>>

\* a login that sets the store's user itself instead of leaving that to the
\* provider's callback
LoginReturns_SetsUser ==
    /\ loginOp.state \in {"resolved", "rejected"}
    /\ IF loginOp.state = "resolved"
       THEN /\ route' = "/recipes"
            /\ currentUser' = loginOp.user
            /\ loginOp' = IdleOp
       ELSE /\ route' = route
            /\ currentUser' = currentUser
            /\ loginOp' = [state |-> "error", user |-> None]
    /\ UNCHANGED <<provUser, notifQ, authLoading, signupOp, logoutOp,
                   profiles>>

\* AuthProvider.login returns or rethrows; LoginPage.handleSubmit continues:
\* router.push('/recipes') on success, setError on failure
LoginReturns ==
    /\ loginOp.state \in {"resolved", "rejected"}
    /\ IF loginOp.state = "resolved"
       THEN /\ route' = "/recipes"
            /\ loginOp' = IdleOp
       ELSE /\ route' = route
            /\ loginOp' = [state |-> "error", user |-> None]
    /\ UNCHANGED <<provUser, notifQ, authLoading, currentUser, signupOp,
                   logoutOp, profiles>>

\* SignupPage.handleSubmit up to "await signup(email, password)"
SignupSubmit ==
    /\ route = "/signup" /\ ~authLoading
    /\ signupOp.state \in {"idle", "error"}
    /\ \E u \in Users : signupOp' = [state |-> "creating", user |-> u]
    /\ UNCHANGED <<provUser, notifQ, authLoading, currentUser, route,
                   loginOp, logoutOp, profiles>>

\* createUserWithEmailAndPassword succeeds; signup goes on to setDoc
CreateUserResolves ==
    /\ signupOp.state = "creating"
    /\ ProviderCanSet(signupOp.user)
    /\ ProviderSets(signupOp.user)
    /\ signupOp' = [signupOp EXCEPT !.state = "writing"]
    /\ UNCHANGED <<authLoading, currentUser, route, loginOp, logoutOp,
                   profiles>>

\* createUserWithEmailAndPassword is rejected; signup rethrows
CreateUserRejects ==
    /\ signupOp.state = "creating"
    /\ signupOp' = [signupOp EXCEPT !.state = "rejected"]
    /\ UNCHANGED <<provUser, notifQ, authLoading, currentUser, route,
                   loginOp, logoutOp, profiles>>

\* a user's email address
Email(u) == <<u, "@">>

\* {email: userCredential.user.email, createdAt: new Date()} under its key
ProfileRecord(u) ==
    [uid |-> Uid(u), email |-> Email(u), createdAt |-> Date(now)]

\* a setDoc that resolves without having written the profile
SetDocResolves_NoWrite ==
    /\ signupOp.state = "writing"
    /\ profiles' = profiles
    /\ signupOp' = [signupOp EXCEPT !.state = "resolved"]
    /\ UNCHANGED <<provUser, notifQ, authLoading, currentUser, route,
                   loginOp, logoutOp>>

\* setDoc(doc(db, 'users', uid), {email, createdAt}) succeeds: the document
\* under that key is replaced
SetDocResolves ==
    /\ signupOp.state = "writing"
    /\ profiles' = {q \in profiles : q.uid # Uid(signupOp.user)}
                     \cup {ProfileRecord(signupOp.user)}
    /\ signupOp' = [signupOp EXCEPT !.state = "resolved"]
    /\ UNCHANGED <<provUser, notifQ, authLoading, currentUser, route,
                   loginOp, logoutOp>>

\* a signup that signs the new user out when the profile write fails
SetDocRejects_RollsBack ==
    /\ signupOp.state = "writing"
    /\ signupOp' = [signupOp EXCEPT !.state = "rejected"]
    /\ provUser' = None
    /\ notifQ' = IF provUser = None THEN notifQ ELSE Append(notifQ, None)
    /\ UNCHANGED <<authLoading, currentUser, route, loginOp, logoutOp,
                   profiles>>

\* setDoc is rejected; signup rethrows and issues nothing else
SetDocRejects ==
    /\ signupOp.state = "writing"
    /\ signupOp' = [signupOp EXCEPT !.state = "rejected"]
    /\ UNCHANGED <<provUser, notifQ, authLoading, currentUser, route,
                   loginOp, logoutOp, profiles>>

\* SignupPage.handleSubmit continues: router.push('/recipes') or setError
SignupReturns ==
    /\ signupOp.state \in {"resolved", "rejected"}
    /\ IF signupOp.state = "resolved"
       THEN /\ route' = "/recipes"
            /\ signupOp' = IdleOp
       ELSE /\ route' = route
            /\ signupOp' = [state |-> "error", user |-> None]
    /\ UNCHANGED <<provUser, notifQ, authLoading, currentUser, loginOp,
                   logoutOp, profiles>>

\* Navigation.handleLogout up to "await logout()"; the button is rendered
\* for a logged-in user only
LogoutClick ==
    /\ ~authLoading /\ currentUser # None
    /\ logoutOp.state \in {"idle", "error"}
    /\ logoutOp' = [state |-> "pending", user |-> None]
    /\ UNCHANGED <<provUser, notifQ, authLoading, currentUser, route,
                   loginOp, signupOp, profiles>>

\* a signOut after which the provider notifies nobody
SignOutResolves_NoNotification ==
    /\ logoutOp.state = "pending"
    /\ provUser' = None
    /\ notifQ' = notifQ
    /\ logoutOp' = [logoutOp EXCEPT !.state = "resolved"]
    /\ UNCHANGED <<authLoading, currentUser, route, loginOp, signupOp,
                   profiles>>

\* signOut succeeds
SignOutResolves ==
    /\ logoutOp.state = "pending"
    /\ ProviderCanSet(None)
    /\ ProviderSets(None)
    /\ logoutOp' = [logoutOp EXCEPT !.state = "resolved"]
    /\ UNCHANGED <<authLoading, currentUser, route, loginOp, signupOp,
                   profiles>>

\* signOut is rejected; logout rethrows
SignOutRejects ==
    /\ logoutOp.state = "pending"
    /\ logoutOp' = [logoutOp EXCEPT !.state = "rejected"]
    /\ UNCHANGED <<provUser, notifQ, authLoading, currentUser, route,
                   loginOp, signupOp, profiles>>

\* a handleLogout that redirects whether or not logout() threw
LogoutReturns_AlwaysRedirects ==
    /\ logoutOp.state \in {"resolved", "rejected"}
    /\ route' = "/login"
    /\ logoutOp' = IF logoutOp.state = "resolved" THEN IdleOp
                   ELSE [state |-> "error", user |-> None]
    /\ UNCHANGED <<provUser, notifQ, authLoading, currentUser, loginOp,
                   signupOp, profiles>>

\* Navigation.handleLogout continues: router.push('/login') after logout()
\* returned; a rejection leaves the handler without a redirect
LogoutReturns ==
    /\ logoutOp.state \in {"resolved", "rejected"}
    /\ IF logoutOp.state = "resolved"
       THEN /\ route' = "/login"
            /\ logoutOp' = IdleOp
       ELSE /\ route' = route
            /\ logoutOp' = [state |-> "error", user |-> None]
    /\ UNCHANGED <<provUser, notifQ, authLoading, currentUser, loginOp,
                   signupOp, profiles>>

----------------------------------------------------------------------------
(* The recipes collection and the recipe detail page *)

\* the most documents the collection holds when a page is opened
MaxStored == 2

NoError == "none"
FailedToLoad == "Failed to load recipe."
\* a rejection nothing catches: the server component has no try/catch
Uncaught == "uncaught"

NoRequest == [id |-> 0, state |-> "none"]

\* documents as the store returns them: one complete, one with only a name
FullDocument ==
    [id |-> 0, name |-> Str(Soup), ingredients |-> Arr(<<SaltIngredient>>),
     instructions |-> Arr(<<Mix>>), cookingTime |-> Num(10),
     servings |-> Num(2), userId |-> Str(Uid("u1")), imageUrl |-> Str(Url),
     categories |-> Arr(<<Soup>>), createdAt |-> Timestamp(1)]

NameOnlyDocument ==
    [id |-> 0, name |-> Str(Soup), ingredients |-> Undefined,
     instructions |-> Undefined, cookingTime |-> Undefined,
     servings |-> Undefined, userId |-> Undefined, imageUrl |-> Undefined,
     categories |-> Undefined, createdAt |-> Undefined]

\* a complete document of another user, without an image
OtherUsersDocument ==
    [FullDocument EXCEPT !.userId = Str(Uid("u2")),
                         !.imageUrl = Str(EmptyString)]

StoredDocuments == {FullDocument, NameOnlyDocument, OtherUsersDocument}

\* the collections of at most n documents; the store assigns the ids 1, 2, ..
Collections(n) ==
    UNION {[1..k -> StoredDocuments] : k \in 0..n}

\* docSnap.exists() and docSnap.id/data() for doc(db, 'recipes', id)
Exists(id) == id \in 1..Len(recipesCol)
Snapshot(id) == [recipesCol[id] EXCEPT !.id = id]

DetailIdle ==
    /\ variant = None
    /\ getDocReq = NoRequest
    /\ recipe = Null
    /\ detailLoading = FALSE
    /\ detailError = NoError
    /\ notFoundPage = FALSE

\* a detail page is opened for recipeId id: the client component mounts with
\* loading = true and its effect calls getDoc; the server component awaits
\* getDoc before it renders anything
OpenDetail ==
    /\ variant = None
    /\ ~authLoading
    /\ \E v \in {"client", "server"}, id \in 1..(MaxStored + 1) :
          /\ variant' = v
          /\ getDocReq' = [id |-> id, state |-> "pending"]
          /\ detailLoading' = (v = "client")
    /\ recipe' = Null
    /\ detailError' = NoError
    /\ notFoundPage' = FALSE

\* client fetchRecipe after "await getDoc": notFound() throws inside the try
\* block, so the catch clause handles it like any other error
ClientAfterGetDoc(id) ==
    IF ~Exists(id)
    THEN /\ detailError' = FailedToLoad
         /\ recipe' = recipe
         /\ notFoundPage' = notFoundPage
    ELSE /\ recipe' = DetailMapper(Snapshot(id))
         /\ detailError' = detailError
         /\ notFoundPage' = notFoundPage

\* server component after "await getDoc": notFound() throws out of the
\* component, which the framework answers with the not-found page
ServerAfterGetDoc(id) ==
    IF ~Exists(id)
    THEN /\ notFoundPage' = TRUE
         /\ recipe' = recipe
         /\ detailError' = detailError
    ELSE /\ recipe' = ServerMapper(Snapshot(id))
         /\ detailError' = detailError
         /\ notFoundPage' = notFoundPage

\* getDoc resolves with a snapshot
GetDocResolves ==
    /\ getDocReq.state = "pending"
    /\ IF variant = "client"
       THEN ClientAfterGetDoc(getDocReq.id)
       ELSE ServerAfterGetDoc(getDocReq.id)
    /\ detailLoading' = FALSE
    /\ getDocReq' = [getDocReq EXCEPT !.state = "resolved"]
    /\ UNCHANGED variant

\* getDoc is rejected (connectivity, permission)
GetDocRejects ==
    /\ getDocReq.state = "pending"
    /\ detailError' = IF variant = "client" THEN FailedToLoad ELSE Uncaught
    /\ detailLoading' = FALSE
    /\ getDocReq' = [getDocReq EXCEPT !.state = "rejected"]
    /\ UNCHANGED <<variant, recipe, notFoundPage>>

\* the client page passes its gates (loading || authLoading, error, !recipe)
\* and renders the recipe
RecipeShown ==
    /\ variant = "client"
    /\ ChildrenRendered
    /\ ~(detailLoading \/ authLoading)
    /\ detailError = NoError
    /\ recipe # Null

\* currentUser && currentUser.uid === recipe.userId
IsOwner == currentUser # None /\ Str(Uid(currentUser)) = recipe.userId

\* an owner test that is content with any logged-in user
EditOffered_AnyUser == RecipeShown /\ currentUser # None

\* the "Edit Recipe" link is rendered: {isOwner && ...} of the client page;
\* the server component renders no such link
EditOffered == RecipeShown /\ IsOwner

\* the visitor leaves the detail page
CloseDetail ==
    /\ variant # None
    /\ getDocReq.state # "pending"
    /\ variant' = None
    /\ getDocReq' = NoRequest
    /\ recipe' = Null
    /\ detailLoading' = FALSE
    /\ detailError' = NoError
    /\ notFoundPage' = FALSE

----------------------------------------------------------------------------
(* RecipesPage *)

FailedToLoadList == "Failed to loead recipes. Please try again later."

\* getDocs has not been called
NoScan == [state |-> "none", scanned |-> 0]

\* RecipesPage is not mounted
ListIdle ==
    /\ recipes = <<>>
    /\ listLoading = FALSE
    /\ listError = NoError
    /\ getDocsReq = NoScan

\* querySnapshot.docs.map(...) over the first n documents of the collection
ListRecipes(n) == [i \in 1..n |-> ListMapper(Snapshot(i))]

\* RecipesPage mounts: recipes = [], loading = true, and its effect calls
\* getDocs(collection(db, 'recipes'))
OpenRecipes ==
    /\ getDocsReq = NoScan
    /\ ~authLoading
    /\ recipes' = <<>>
    /\ listLoading' = TRUE
    /\ listError' = NoError
    /\ getDocsReq' = [state |-> "pending", scanned |-> 0]

\* the store reads one more document of the collection for the scan
ScanDocument ==
    /\ getDocsReq.state = "pending"
    /\ getDocsReq.scanned < Len(recipesCol)
    /\ getDocsReq' = [getDocsReq EXCEPT !.scanned = @ + 1]
    /\ UNCHANGED <<recipes, listLoading, listError>>

\* getDocs resolves with the snapshot of the whole collection: the page maps
\* it and replaces the list
GetDocsResolves ==
    /\ getDocsReq.state = "pending"
    /\ getDocsReq.scanned = Len(recipesCol)
    /\ recipes' = ListRecipes(getDocsReq.scanned)
    /\ listLoading' = FALSE
    /\ getDocsReq' = [getDocsReq EXCEPT !.state = "resolved"]
    /\ UNCHANGED listError

\* a page that shows what the scan had read when it failed
GetDocsRejects_KeepsPartial ==
    /\ getDocsReq.state = "pending"
    /\ recipes' = ListRecipes(getDocsReq.scanned)
    /\ listError' = FailedToLoadList
    /\ listLoading' = FALSE
    /\ getDocsReq' = [getDocsReq EXCEPT !.state = "rejected"]

\* getDocs is rejected, wherever the scan was: the catch clause sets the error
GetDocsRejects ==
    /\ getDocsReq.state = "pending"
    /\ listError' = FailedToLoadList
    /\ listLoading' = FALSE
    /\ getDocsReq' = [getDocsReq EXCEPT !.state = "rejected"]
    /\ UNCHANGED recipes

\* the visitor leaves the list page
CloseRecipes ==
    /\ getDocsReq.state \in {"resolved", "rejected"}
    /\ recipes' = <<>>
    /\ listLoading' = FALSE
    /\ listError' = NoError
    /\ getDocsReq' = NoScan

----------------------------------------------------------------------------
(* AddRecipePage *)

\* the most ingredient rows and instruction steps of a draft
MaxIngredients == 2
MaxInstructions == 2

\* the last reading of the clock
MaxClock == 2

\* the value Timestamp.now() returns
Now == now

ValidationMessage ==
    "Please fill in all required fields, including all ingredients and instruction details."
AddFailedMessage == "Failed to add recipe. Please try again."
SuccessMessage == "Recipe added successfully!"

NoDocument == [id |-> 0, name |-> Undefined, ingredients |-> Undefined,
               instructions |-> Undefined, cookingTime |-> Undefined,
               servings |-> Undefined, userId |-> Undefined,
               imageUrl |-> Undefined, categories |-> Undefined,
               createdAt |-> Undefined]

\* "a, ,b": two categories around a blank one
CategoriesInput == <<"a", ",", " ", ",", "b">>

\* the values the form's setters can hold
RecipeNames == {EmptyString, Soup}
IngredientRows ==
    [name : {EmptyString, Salt}, quantity : {-1, 0, 5},
     unit : {EmptyString, G}]
InstructionSteps == {EmptyString, Blank, Mix}
CookingTimes == {Str(EmptyString), Num(10)}
ServingsInputs == {Str(EmptyString), Num(2)}
\* " , ": nothing but blanks around a comma
BlankCategories == <<" ", ",", " ">>
\* the optional fields left blank, and filled in
OptionalInputs == {<<Blank, BlankCategories>>, <<Url, CategoriesInput>>}

SeqsUpTo(S, n) == UNION {[1..k -> S] : k \in 1..n}

\* useState initial values of AddRecipePage
BlankForm ==
    /\ recipeName = EmptyString
    /\ ingredients = <<[name |-> EmptyString, quantity |-> 0,
                        unit |-> EmptyString]>>
    /\ instructions = <<EmptyString>>
    /\ cookingTime = Str(EmptyString)
    /\ servings = Str(EmptyString)
    /\ imageUrl = EmptyString
    /\ categories = EmptyString

\* setRecipeName(''), setIngredients([{name: '', quantity: 0, unit: ''}]), ...
ResetForm ==
    /\ recipeName' = EmptyString
    /\ ingredients' = <<[name |-> EmptyString, quantity |-> 0,
                         unit |-> EmptyString]>>
    /\ instructions' = <<EmptyString>>
    /\ cookingTime' = Str(EmptyString)
    /\ servings' = Str(EmptyString)
    /\ imageUrl' = EmptyString
    /\ categories' = EmptyString

CreateIdle ==
    /\ formLoading = FALSE
    /\ formError = NoError
    /\ success = NoError
    /\ addDocReq = NoDocument

\* a complete draft
ValidDraft ==
    [recipeName |-> Soup, ingredients |-> <<SaltIngredient>>,
     instructions |-> <<Mix>>, cookingTime |-> Num(10),
     servings |-> Num(2), imageUrl |-> EmptyString,
     categories |-> EmptyString]

\* one draft for each category, violating that category first
CategoryExamples ==
    {[ValidDraft EXCEPT !.recipeName = EmptyString],
     [ValidDraft EXCEPT !.ingredients[1].unit = EmptyString],
     [ValidDraft EXCEPT !.instructions[1] = EmptyString],
     [ValidDraft EXCEPT !.servings = Str(EmptyString)]}

\* a complete draft with the optional fields filled in
FilledDraft ==
    [ValidDraft EXCEPT !.imageUrl = Url, !.categories = CategoriesInput]

\* the drafts a user submits: complete ones, and one for each category of
\* the validation
SubmittedDrafts == {ValidDraft, FilledDraft} \cup CategoryExamples

\* the user fills the form in with a complete draft, through setRecipeName,
\* handleIngredientChange, handleInstructionChange, setCookingTime and
\* setServings; the form is rendered for a logged-in user only, and the
\* user stops drafting once the collection is full
TypeDraft ==
    /\ route = "/recipes/new"
    /\ ~authLoading /\ currentUser # None
    /\ ~formLoading
    /\ Len(recipesCol) < MaxStored
    /\ recipeName' = ValidDraft.recipeName
    /\ ingredients' = ValidDraft.ingredients
    /\ instructions' = ValidDraft.instructions
    /\ cookingTime' = ValidDraft.cookingTime
    /\ servings' = ValidDraft.servings
    /\ imageUrl' = ValidDraft.imageUrl
    /\ categories' = ValidDraft.categories
    /\ UNCHANGED <<route, recipesCol, createVars>>

\* the form as the submit handler reads it
Form ==
    [recipeName |-> recipeName, ingredients |-> ingredients,
     instructions |-> instructions, cookingTime |-> cookingTime,
     servings |-> servings, imageUrl |-> imageUrl,
     categories |-> categories]

\* !ing.name || !ing.quantity || !ing.unit
IngredientIncomplete(ing) ==
    Len(ing.name) = 0 \/ ing.quantity = 0 \/ Len(ing.unit) = 0

\* the condition of handleSubmit's "Basic validation"
ValidationFails(f) ==
    \/ Len(f.recipeName) = 0
    \/ \E i \in 1..Len(f.ingredients) : IngredientIncomplete(f.ingredients[i])
    \/ \E i \in 1..Len(f.instructions) : Len(f.instructions[i]) = 0
    \/ f.cookingTime = Str(EmptyString)
    \/ f.servings = Str(EmptyString)

\* ingredients.filter((ing) => ing.name && ing.quantity && ing.unit)
RECURSIVE CompleteIngredients(_)
CompleteIngredients(a) ==
    IF a = <<>> THEN <<>>
    ELSE IF IngredientIncomplete(Head(a)) THEN CompleteIngredients(Tail(a))
    ELSE <<Head(a)>> \o CompleteIngredients(Tail(a))

\* instructions.filter((inst) => inst.trim() !== '')
RECURSIVE NonBlankSteps(_)
NonBlankSteps(a) ==
    IF a = <<>> THEN <<>>
    ELSE IF Trim(Head(a)) = EmptyString THEN NonBlankSteps(Tail(a))
    ELSE <<Head(a)>> \o NonBlankSteps(Tail(a))

\* categories.split(',').map((cat) => cat.trim()).filter((cat) => cat !== '')
RECURSIVE TrimmedNonEmpty(_)
TrimmedNonEmpty(a) ==
    IF a = <<>> THEN <<>>
    ELSE IF Trim(Head(a)) = EmptyString THEN TrimmedNonEmpty(Tail(a))
    ELSE <<Trim(Head(a))>> \o TrimmedNonEmpty(Tail(a))

ParsedCategories(s) == TrimmedNonEmpty(SplitComma(s))

\* Number(x) for a number or a string of blanks
ToNumber(x) == IF x.t = "number" THEN x.v ELSE 0

\* a recipeData that always carries imageUrl and categories
RecipeData_KeepsEmptyOptionals(f, uid) ==
    [id |-> 0,
     name |-> Str(f.recipeName),
     ingredients |-> Arr(CompleteIngredients(f.ingredients)),
     instructions |-> Arr(NonBlankSteps(f.instructions)),
     cookingTime |-> Num(ToNumber(f.cookingTime)),
     servings |-> Num(ToNumber(f.servings)),
     userId |-> Str(Uid(uid)),
     imageUrl |-> Str(Trim(f.imageUrl)),
     categories |-> Arr(ParsedCategories(f.categories)),
     createdAt |-> Timestamp(Now)]

\* recipeData as handleSubmit passes it to addDoc
RecipeData(f, uid) ==
    [id |-> 0,
     name |-> Str(f.recipeName),
     ingredients |-> Arr(CompleteIngredients(f.ingredients)),
     instructions |-> Arr(NonBlankSteps(f.instructions)),
     cookingTime |-> Num(ToNumber(f.cookingTime)),
     servings |-> Num(ToNumber(f.servings)),
     userId |-> Str(Uid(uid)),
     imageUrl |-> IF Trim(f.imageUrl) # EmptyString
                  THEN Str(Trim(f.imageUrl)) ELSE Undefined,
     categories |-> IF Len(ParsedCategories(f.categories)) > 0
                    THEN Arr(ParsedCategories(f.categories)) ELSE Undefined,
     createdAt |-> Timestamp(Now)]

\* the category of the first condition of the validation that f violates
FirstViolated(f) ==
    IF Len(f.recipeName) = 0 THEN "name"
    ELSE IF \E i \in 1..Len(f.ingredients) :
              IngredientIncomplete(f.ingredients[i]) THEN "ingredient"
    ELSE IF \E i \in 1..Len(f.instructions) : Len(f.instructions[i]) = 0
         THEN "instruction"
    ELSE IF f.cookingTime = Str(EmptyString) \/ f.servings = Str(EmptyString)
         THEN "cookingTime/servings"
    ELSE "none"

\* a validation that names the violated category in its message
SubmitError_NamesCategory(f) ==
    IF ValidationFails(f) THEN FirstViolated(f) ELSE NoError

\* the error handleSubmit sets before it goes on: setError(null), then the
\* one message of the validation
SubmitError(f) ==
    IF ValidationFails(f) THEN ValidationMessage ELSE NoError

\* a handleSubmit whose validation lacks the return and goes on to addDoc
HandleSubmit_NoReturn ==
    /\ route = "/recipes/new"
    /\ ~authLoading /\ currentUser # None
    /\ ~formLoading
    /\ success' = NoError
    /\ formError' = SubmitError(Form)
    /\ formLoading' = ~ValidationFails(Form)
    /\ addDocReq' = RecipeData(Form, currentUser)
    /\ UNCHANGED <<formVars, recipesCol, route>>

\* a handleSubmit that is not kept behind the page's session gates
HandleSubmit_NoSessionGate ==
    /\ route = "/recipes/new"
    /\ ~formLoading
    /\ success' = NoError
    /\ formError' = SubmitError(Form)
    /\ IF ValidationFails(Form)
       THEN /\ formLoading' = FALSE
            /\ addDocReq' = addDocReq
       ELSE /\ formLoading' = TRUE
            /\ addDocReq' = RecipeData(Form, currentUser)
    /\ UNCHANGED <<formVars, recipesCol, route>>

\* handleSubmit up to its return or to "await addDoc": the page is rendered
\* for a logged-in user only and the submit button is disabled while loading
HandleSubmit ==
    /\ route = "/recipes/new"
    /\ ~authLoading /\ currentUser # None
    /\ ~formLoading
    /\ success' = NoError
    /\ formError' = SubmitError(Form)
    /\ IF ValidationFails(Form)
       THEN /\ formLoading' = FALSE
            /\ addDocReq' = addDocReq
       ELSE /\ formLoading' = TRUE
            /\ addDocReq' = RecipeData(Form, currentUser)
    /\ UNCHANGED <<formVars, recipesCol, route>>

\* addDoc resolves: the store keeps the document under a new id; the handler
\* sets success, resets the form and redirects to the list
AddDocResolves ==
    /\ addDocReq # NoDocument
    /\ recipesCol' = Append(recipesCol, addDocReq)
    /\ success' = SuccessMessage
    /\ ResetForm
    /\ route' = "/recipes"
    /\ formLoading' = FALSE
    /\ addDocReq' = NoDocument
    /\ UNCHANGED formError

\* a handler that sends the document again when addDoc was rejected
AddDocRejects_Retries ==
    /\ addDocReq # NoDocument
    /\ UNCHANGED <<formVars, createVars, recipesCol, route>>

\* a handler without the finally clause: a rejected insert leaves loading set
AddDocRejects_KeepsLoading ==
    /\ addDocReq # NoDocument
    /\ formError' = AddFailedMessage
    /\ addDocReq' = NoDocument
    /\ UNCHANGED <<formVars, recipesCol, route, success, formLoading>>

\* addDoc is rejected: the catch clause sets the error, the finally clause
\* ends loading
AddDocRejects ==
    /\ addDocReq # NoDocument
    /\ formError' = AddFailedMessage
    /\ formLoading' = FALSE
    /\ addDocReq' = NoDocument
    /\ UNCHANGED <<formVars, recipesCol, route, success>>

\* the list page's "Add New Recipe" link: AddRecipePage mounts afresh
OpenAddRecipePage ==
    /\ route = "/recipes"
    /\ ~authLoading
    /\ addDocReq = NoDocument
    /\ route' = "/recipes/new"
    /\ ResetForm
    /\ formLoading' = FALSE
    /\ formError' = NoError
    /\ success' = NoError
    /\ UNCHANGED <<addDocReq, recipesCol>>

\* time passes while an insert is in flight
Tick ==
    /\ addDocReq # NoDocument
    /\ now < MaxClock
    /\ now' = now + 1
    /\ UNCHANGED <<route, recipesCol, formVars, createVars>>

----------------------------------------------------------------------------
(* Specifications *)

\* a resolved session, no auth operation under way
AuthSettled ==
    /\ provUser = currentUser
    /\ notifQ = <<>>
    /\ authLoading = FALSE
    /\ loginOp = IdleOp
    /\ signupOp = IdleOp
    /\ logoutOp = IdleOp
    /\ profiles = {}

\* Session store: the identity provider, AuthProvider and the auth pages
Init ==
    /\ InitAuth
    /\ MapperIdle
    /\ recipesCol = <<>>
    /\ DetailIdle
    /\ BlankForm
    /\ CreateIdle
    /\ now = 1
    /\ ListIdle

AuthFrame ==
    UNCHANGED <<mapVars, recipesCol, detailVars, formVars, createVars, now,
                listVars>>

Next ==
    \/ AuthStateChanged /\ AuthFrame
    \/ FollowLink /\ AuthFrame
    \/ RedirectLoggedIn /\ AuthFrame
    \/ RedirectToLogin /\ AuthFrame
    \/ LoginSubmit /\ AuthFrame
    \/ SignInResolves /\ AuthFrame
    \/ SignInRejects /\ AuthFrame
    \/ LoginReturns /\ AuthFrame
    \/ SignupSubmit /\ AuthFrame
    \/ CreateUserResolves /\ AuthFrame
    \/ CreateUserRejects /\ AuthFrame
    \/ SetDocResolves /\ AuthFrame
    \/ SetDocRejects /\ AuthFrame
    \/ SignupReturns /\ AuthFrame
    \/ LogoutClick /\ AuthFrame
    \/ SignOutResolves /\ AuthFrame
    \/ SignOutRejects /\ AuthFrame
    \/ LogoutReturns /\ AuthFrame

Spec == Init /\ [][Next]_vars

\* the same, with the provider delivering every notification it has queued
SpecLive == Spec /\ WF_vars(AuthStateChanged /\ AuthFrame)

\* Record mappers: one raw document, mapped and mapped again
InitMapperSpec ==
    /\ InitMapper
    /\ currentUser = None /\ route = "/recipes"
    /\ AuthSettled
    /\ recipesCol = <<>>
    /\ DetailIdle
    /\ BlankForm
    /\ CreateIdle
    /\ now = 1
    /\ ListIdle

MapperFrame ==
    UNCHANGED <<authVars, recipesCol, detailVars, formVars, createVars, now,
                listVars>>

NextMapper ==
    \/ ApplyListMapper /\ MapperFrame
    \/ ApplyDetailMapper /\ MapperFrame
    \/ ApplyServerMapper /\ MapperFrame
    \/ Remap /\ MapperFrame

SpecMapper == InitMapperSpec /\ [][NextMapper]_vars

\* Detail page: a stored collection, the first callback of the provider,
\* pages opened for present and absent ids
InitDetail ==
    /\ InitAuth /\ route = "/recipes"
    /\ MapperIdle
    /\ recipesCol \in Collections(MaxStored)
    /\ DetailIdle
    /\ BlankForm
    /\ CreateIdle
    /\ now = 1
    /\ ListIdle

DetailFrame ==
    UNCHANGED <<authVars, mapVars, recipesCol, formVars, createVars, now,
                listVars>>

NextDetail ==
    \/ OpenDetail /\ DetailFrame
    \/ GetDocResolves /\ DetailFrame
    \/ GetDocRejects /\ DetailFrame
    \/ CloseDetail /\ DetailFrame
    \/ AuthStateChanged /\ AuthFrame

SpecDetail == InitDetail /\ [][NextDetail]_vars

\* List page: a stored collection, the page opened, scanned and closed
InitList ==
    /\ currentUser \in Users \cup {None} /\ route = "/recipes"
    /\ AuthSettled
    /\ MapperIdle
    /\ recipesCol \in Collections(MaxStored)
    /\ DetailIdle
    /\ BlankForm
    /\ CreateIdle
    /\ now = 1
    /\ ListIdle

ListFrame ==
    UNCHANGED <<authVars, mapVars, recipesCol, detailVars, formVars,
                createVars, now>>

NextList ==
    \/ OpenRecipes /\ ListFrame
    \/ ScanDocument /\ ListFrame
    \/ GetDocsResolves /\ ListFrame
    \/ GetDocsRejects /\ ListFrame
    \/ CloseRecipes /\ ListFrame

SpecList == InitList /\ [][NextList]_vars

\* AddRecipePage: a logged-in user has the page open and has left the form in
\* one of the states its setters (setRecipeName, handleIngredientChange,
\* addIngredient, removeIngredient, handleInstructionChange, ...) can produce.
\* handleSubmit is taken on every such state: the min and required attributes
\* of the markup are the browser's checks, not the handler's.
InitCreate ==
    /\ currentUser \in Users /\ route = "/recipes/new"
    /\ AuthSettled
    /\ MapperIdle
    /\ recipesCol = <<>>
    /\ DetailIdle
    /\ recipeName \in RecipeNames
    /\ ingredients \in SeqsUpTo(IngredientRows, MaxIngredients)
    /\ instructions \in SeqsUpTo(InstructionSteps, MaxInstructions)
    /\ cookingTime \in CookingTimes
    /\ servings \in ServingsInputs
    /\ \E p \in OptionalInputs : imageUrl = p[1] /\ categories = p[2]
    /\ CreateIdle
    /\ now = 1
    /\ ListIdle

CreateFrame ==
    UNCHANGED <<provUser, notifQ, authLoading, currentUser, loginOp,
                signupOp, logoutOp, profiles, mapVars, detailVars, now,
                listVars>>

\* what a step of the clock leaves alone
TickFrame ==
    UNCHANGED <<authVars, mapVars, detailVars, listVars>>

NextCreate ==
    \/ HandleSubmit /\ CreateFrame
    \/ AddDocResolves /\ CreateFrame
    \/ AddDocRejects /\ CreateFrame
    \/ OpenAddRecipePage /\ CreateFrame
    \/ Tick /\ TickFrame

SpecCreate == InitCreate /\ [][NextCreate]_vars

\* AddRecipePage over time: a logged-in user has typed one of the drafts,
\* submits it, waits for the store, types a complete draft again or comes
\* back from the list; the store answers every insert, so the promise addDoc
\* returned is settled and the handler goes on after its await
InitSubmit ==
    /\ currentUser \in Users /\ route = "/recipes/new"
    /\ AuthSettled
    /\ MapperIdle
    /\ recipesCol = <<>>
    /\ DetailIdle
    /\ \E d \in SubmittedDrafts :
         /\ recipeName = d.recipeName
         /\ ingredients = d.ingredients
         /\ instructions = d.instructions
         /\ cookingTime = d.cookingTime
         /\ servings = d.servings
         /\ imageUrl = d.imageUrl
         /\ categories = d.categories
    /\ CreateIdle
    /\ now = 1
    /\ ListIdle

NextSubmit ==
    \/ TypeDraft /\ CreateFrame
    \/ HandleSubmit /\ CreateFrame
    \/ AddDocResolves /\ CreateFrame
    \/ AddDocRejects /\ CreateFrame
    \/ OpenAddRecipePage /\ CreateFrame
    \/ Tick /\ TickFrame

SpecSubmit ==
    /\ InitSubmit
    /\ [][NextSubmit]_vars
    /\ WF_vars((AddDocResolves \/ AddDocRejects) /\ CreateFrame)

\* Session and AddRecipePage together: the session store with login and
\* logout, the links and redirects, and a user who drafts and submits recipes
\* while the session changes
SessionFollowLink == FollowLink /\ route' # "/recipes/new"

NextSession ==
    \/ AuthStateChanged /\ AuthFrame
    \/ SessionFollowLink /\ AuthFrame
    \/ RedirectLoggedIn /\ AuthFrame
    \/ RedirectToLogin /\ AuthFrame
    \/ LoginSubmit /\ AuthFrame
    \/ SignInResolves /\ AuthFrame
    \/ SignInRejects /\ AuthFrame
    \/ LoginReturns /\ AuthFrame
    \/ LogoutClick /\ AuthFrame
    \/ SignOutResolves /\ AuthFrame
    \/ SignOutRejects /\ AuthFrame
    \/ LogoutReturns /\ AuthFrame
    \/ OpenAddRecipePage /\ CreateFrame
    \/ TypeDraft /\ CreateFrame
    \/ HandleSubmit /\ CreateFrame
    \/ AddDocResolves /\ CreateFrame
    \/ AddDocRejects /\ CreateFrame

SpecSession == Init /\ [][NextSession]_vars

\* The six operations together: signup, login and logout, the list page, the
\* detail page and the creation page. One page is mounted at a time, the list
\* and the detail page on /recipes and the creation page on /recipes/new, and
\* an operation is started only when no other call is in flight
\* no call to the provider or the store is in flight
Quiet ==
    /\ loginOp.state \in {"idle", "error"}
    /\ signupOp.state \in {"idle", "error"}
    /\ logoutOp.state \in {"idle", "error"}
    /\ getDocsReq.state # "pending"
    /\ getDocReq.state # "pending"
    /\ addDocReq = NoDocument

ListPageOpens ==
    OpenRecipes /\ route = "/recipes" /\ variant = None /\ Quiet

DetailPageOpens ==
    OpenDetail /\ route = "/recipes" /\ getDocsReq = NoScan /\ Quiet

NextOps ==
    \/ AuthStateChanged /\ AuthFrame
    \/ LoginSubmit /\ Quiet /\ AuthFrame
    \/ SignInResolves /\ AuthFrame
    \/ SignInRejects /\ AuthFrame
    \/ LoginReturns /\ AuthFrame
    \/ SignupSubmit /\ Quiet /\ AuthFrame
    \/ CreateUserResolves /\ AuthFrame
    \/ CreateUserRejects /\ AuthFrame
    \/ SetDocResolves /\ AuthFrame
    \/ SetDocRejects /\ AuthFrame
    \/ SignupReturns /\ AuthFrame
    \/ LogoutClick /\ Quiet /\ AuthFrame
    \/ SignOutResolves /\ AuthFrame
    \/ SignOutRejects /\ AuthFrame
    \/ LogoutReturns /\ AuthFrame
    \/ ListPageOpens /\ ListFrame
    \/ ScanDocument /\ ListFrame
    \/ GetDocsResolves /\ ListFrame
    \/ GetDocsRejects /\ ListFrame
    \/ CloseRecipes /\ ListFrame
    \/ DetailPageOpens /\ DetailFrame
    \/ GetDocResolves /\ DetailFrame
    \/ GetDocRejects /\ DetailFrame
    \/ CloseDetail /\ DetailFrame
    \/ OpenAddRecipePage /\ CreateFrame
    \/ TypeDraft /\ CreateFrame
    \/ HandleSubmit /\ Quiet /\ CreateFrame
    \/ AddDocResolves /\ CreateFrame
    \/ AddDocRejects /\ CreateFrame

SpecOps == Init /\ [][NextOps]_vars

----------------------------------------------------------------------------
(* Claims about the session store (specification Spec) *)

\* the steps that signup, login and logout consist of
AuthOperationStep ==
    \/ LoginSubmit \/ SignInResolves \/ SignInRejects \/ LoginReturns
    \/ SignupSubmit \/ CreateUserResolves \/ CreateUserRejects
    \/ SetDocResolves \/ SetDocRejects \/ SignupReturns
    \/ LogoutClick \/ SignOutResolves \/ SignOutRejects \/ LogoutReturns

\* C1: the store starts Unresolved (loading = true, currentUser = null);
\* only the provider's callback changes loading or currentUser, the first
\* one leaving Unresolved for Anonymous or Authenticated; no step of signup,
\* login or logout changes either; once resolved the store stays resolved.
C1_ResolvedOnlyByCallback ==
    /\ (authLoading = TRUE /\ currentUser = None)
    /\ [][(authLoading' # authLoading \/ currentUser' # currentUser)
            => /\ AuthStateChanged
               /\ ~authLoading'
               /\ currentUser' \in Users \cup {None}]_vars
    /\ [][AuthOperationStep => UNCHANGED <<authLoading, currentUser>>]_vars
    /\ [][~authLoading => ~authLoading']_vars

\* login has succeeded at the provider and the store is still Anonymous
C1_Witness ==
    /\ ~authLoading
    /\ loginOp.state = "resolved"
    /\ provUser = loginOp.user
    /\ currentUser = None

\* C2: the store never goes from Authenticated(identity) directly to
\* Authenticated(identity') with another identity.
C2_NoDirectIdentityChange ==
    [][(currentUser # None /\ currentUser' # None)
         => currentUser' = currentUser]_vars

----------------------------------------------------------------------------
(* Claims about the detail page fetch (specification SpecDetail) *)

\* C3: fetching an id that has no document ends in the not-found outcome,
\* never in the generic failure 'Failed to load recipe.', in the client and
\* in the server variant.
C3_AbsentIdEndsNotFound ==
    (variant # None /\ getDocReq.state = "resolved"
       /\ ~Exists(getDocReq.id))
      => (notFoundPage /\ detailError = NoError)

----------------------------------------------------------------------------
(* Claims about the record mappers (specification SpecMapper) *)

DefaultedFields == DataFields \ {"createdAt"}
OrFields == {"name", "ingredients", "instructions", "userId", "imageUrl",
             "categories"}
NullishFields == {"cookingTime", "servings"}

\* the documented defaults
DefaultOf(f) ==
    CASE f = "name" -> Str(UntitledRecipe)
      [] f = "ingredients" -> Arr(<<>>)
      [] f = "instructions" -> Arr(<<>>)
      [] f = "cookingTime" -> Num(0)
      [] f = "servings" -> Num(0)
      [] f = "userId" -> Str(Unknown)
      [] f = "imageUrl" -> Str(EmptyString)
      [] f = "categories" -> Arr(<<>>)

\* C4 as stated: a missing field gets its documented default and a field
\* present with a non-default value is copied unchanged, in the list mapper
\* and in the detail mapper.
C4_PresentValueCopied ==
    which \in {"list", "detail"} =>
      \A f \in DefaultedFields :
        /\ doc[f] = Undefined => mapped[f] = DefaultOf(f)
        /\ (doc[f] \notin {Undefined, Null} /\ doc[f] # DefaultOf(f))
             => mapped[f] = doc[f]

\* C4 amended: a missing field gets its documented default; name,
\* ingredients, instructions, userId, imageUrl and categories are copied
\* when truthy and replaced by the default when falsy (an empty string);
\* cookingTime and servings are copied whenever they are not null.
C4_DefaultsAndTruthyCopied ==
    which \in {"list", "detail"} =>
      \A f \in DefaultedFields :
        /\ doc[f] = Undefined => mapped[f] = DefaultOf(f)
        /\ (f \in OrFields /\ Truthy(doc[f])) => mapped[f] = doc[f]
        /\ (f \in OrFields /\ ~Truthy(doc[f])) => mapped[f] = DefaultOf(f)
        /\ (f \in NullishFields /\ doc[f] \notin {Undefined, Null})
             => mapped[f] = doc[f]

\* a document with an empty name, no cookingTime and an image has been mapped
C4_Witness ==
    /\ which = "list"
    /\ doc.name = Str(EmptyString) /\ mapped.name = Str(UntitledRecipe)
    /\ doc.cookingTime = Undefined /\ mapped.cookingTime = Num(0)
    /\ doc.userId = Undefined /\ mapped.userId = Str(Unknown)
    /\ doc.imageUrl = Str(Url) /\ mapped.imageUrl = Str(Url)

\* C5 as stated: mapping the mapped Recipe again yields an identical Recipe
\* in every field, createdAt included.
C5_Idempotent ==
    (which \in {"list", "detail"} /\ remapped # Undefined)
      => remapped = mapped

\* C5 amended: the detail mapper is idempotent in every field; the list
\* mapper is idempotent in every field but createdAt, where the Date it made
\* of a Timestamp is not a Timestamp and maps to undefined.
C5_IdempotentButListCreatedAt ==
    (which \in {"list", "detail"} /\ remapped # Undefined) =>
      /\ \A f \in DefaultedFields \cup {"id"} : remapped[f] = mapped[f]
      /\ which = "detail" => remapped.createdAt = mapped.createdAt
      /\ which = "list" => remapped.createdAt = Undefined

\* the list mapper has mapped a document with a Timestamp twice
C5_Witness ==
    /\ which = "list"
    /\ doc.createdAt = Timestamp(1)
    /\ mapped.createdAt = Date(1)
    /\ remapped # Undefined
    /\ remapped.createdAt = Undefined

\* C6 as stated: no field of the mapped Recipe is null or undefined.
C6_NoFieldNullish ==
    which # None =>
      \A f \in DataFields : mapped[f] \notin {Undefined, Null}

\* C6 amended: no field other than createdAt is null or undefined, and
\* createdAt is never null; createdAt is undefined when the document has none.
C6_OnlyCreatedAtUndefined ==
    which # None =>
      /\ \A f \in DefaultedFields : mapped[f] \notin {Undefined, Null}
      /\ mapped.createdAt # Null
      /\ doc.createdAt \in {Undefined, Null} => mapped.createdAt = Undefined

\* a document with null and absent fields and no createdAt has been mapped
C6_Witness ==
    /\ which = "server"
    /\ doc.name = Null /\ doc.cookingTime = Null
    /\ doc.ingredients = Undefined /\ doc.servings = Undefined
    /\ doc.createdAt = Undefined
    /\ mapped.createdAt = Undefined
    /\ mapped.servings = Num(0)

----------------------------------------------------------------------------
(* Claims about the submit handler (specification SpecCreate) *)

\* C7: when the submit rejects a draft for a validation failure no insert
\* is issued: the collection is unchanged, nothing is sent to the store, the
\* error is set and the form fields keep their values.
C7_RejectedDraftNotInserted ==
    [][(HandleSubmit /\ ValidationFails(Form))
         => /\ recipesCol' = recipesCol
            /\ addDocReq' = NoDocument
            /\ formError' # NoError
            /\ ~formLoading'
            /\ formVars' = formVars]_vars

\* a named draft with a zero quantity has been rejected and is still there
C7_Witness ==
    /\ formError = ValidationMessage
    /\ recipeName = Soup
    /\ ingredients = <<[name |-> Salt, quantity |-> 0, unit |-> G]>>
    /\ recipesCol = <<>>
    /\ addDocReq = NoDocument
    /\ ~formLoading

\* C8: the submit fails with the validation error, and sends nothing to the
\* store, whenever an ingredient's quantity is not greater than 0; a valid
\* draft whose only ingredient is Salt, 5, g is sent with exactly that entry.
C8_NonPositiveQuantityRejected ==
    [][HandleSubmit
         => /\ (\E i \in 1..Len(ingredients) : ingredients[i].quantity <= 0)
                 => /\ formError' = ValidationMessage
                    /\ addDocReq' = NoDocument
                    /\ recipesCol' = recipesCol
            /\ (ingredients = <<SaltIngredient>> /\ ~ValidationFails(Form))
                 => addDocReq'.ingredients = Arr(<<SaltIngredient>>)]_vars

\* C9: the submit fails with the validation error, and sends nothing to the
\* store, whenever an instruction step is empty after trimming; so a document
\* sent to the store has as many steps as the draft.
C9_BlankStepRejected ==
    [][HandleSubmit
         => /\ (\E i \in 1..Len(instructions) :
                   Trim(instructions[i]) = EmptyString)
                 => /\ formError' = ValidationMessage
                    /\ addDocReq' = NoDocument
                    /\ recipesCol' = recipesCol
            /\ addDocReq' # NoDocument
                 => Len(addDocReq'.instructions.v) = Len(instructions)]_vars

\* the form shows the error of a rejected draft, which is still in the form
ValidationReported == formError \notin {NoError, AddFailedMessage}

SentDocuments ==
    {recipesCol[i] : i \in 1..Len(recipesCol)} \cup ({addDocReq} \ {NoDocument})

\* C11: every document create inserts carries the createdAt that was read
\* from the clock at submit time, and its imageUrl is absent or non-empty
\* after trimming and its categories are absent or a non-empty list.
C11_InsertedDocumentShape ==
    /\ [](\A d \in SentDocuments :
            /\ d.createdAt.t = "Timestamp"
            /\ d.imageUrl = Undefined
                 \/ (d.imageUrl.t = "string" /\ Trim(d.imageUrl.v) # EmptyString)
            /\ d.categories = Undefined
                 \/ (d.categories.t = "array" /\ Len(d.categories.v) > 0))
    /\ [][(HandleSubmit /\ addDocReq' # NoDocument)
             => addDocReq'.createdAt = Timestamp(now)]_vars
    /\ [][AddDocResolves => recipesCol' = Append(recipesCol, addDocReq)]_vars

\* a draft with blank optional fields was submitted at time 1 and stored at
\* time 2, without imageUrl and categories
C11_Witness ==
    /\ Len(recipesCol) = 1
    /\ recipesCol[1].createdAt = Timestamp(1)
    /\ now = 2
    /\ recipesCol[1].imageUrl = Undefined
    /\ recipesCol[1].categories = Undefined

----------------------------------------------------------------------------
(* Claims about signup (specification Spec) *)

\* C12: when the account was created and the profile write fails, signup
\* fails with the error, which the page reports, and the session is not
\* rolled back: the failing step and the return leave the provider's user
\* and its notifications alone and issue no sign-out (an account deletion
\* would end the session as well); the provider's user changes only when
\* a sign-in, an account creation or a sign-out succeeds.
C12_ProfileFailureKeepsSession ==
    /\ [][SetDocRejects
            => /\ signupOp'.state = "rejected"
               /\ UNCHANGED <<provUser, notifQ, logoutOp, profiles>>]_vars
    /\ [][(SignupReturns /\ signupOp.state = "rejected")
            => /\ signupOp'.state = "error"
               /\ UNCHANGED <<provUser, notifQ, logoutOp, route>>]_vars
    /\ [][CreateUserResolves => provUser' = signupOp.user]_vars
    /\ [][provUser' # provUser
            => SignInResolves \/ CreateUserResolves \/ SignOutResolves]_vars

\* a visitor without a session signed up, the account was created and the
\* profile write failed: the provider holds the new user's session, whose
\* notification is still to be delivered, and no profile exists
C12_Witness ==
    /\ signupOp.state = "rejected"
    /\ provUser = signupOp.user
    /\ notifQ = <<signupOp.user>>
    /\ ~authLoading /\ currentUser = None
    /\ profiles = {}
    /\ loginOp = IdleOp /\ logoutOp = IdleOp
    /\ route = "/signup"

\* C13: when signup returns successfully the profile {email, createdAt}
\* exists under the new user's key; profiles are written only by the setDoc
\* that follows a successful account creation, and a rejected account
\* creation ends the signup without any write.
C13_ProfileWrittenBeforeReturn ==
    /\ [](signupOp.state = "resolved"
           => \E q \in profiles :
                /\ q.uid = Uid(signupOp.user)
                /\ q.email = Email(signupOp.user)
                /\ q.createdAt.t = "Date")
    /\ [][profiles' # profiles
            => SetDocResolves /\ signupOp.state = "writing"]_vars
    /\ [][(signupOp'.state = "writing" /\ signupOp.state # "writing")
            => CreateUserResolves]_vars
    /\ [][CreateUserRejects
            => signupOp'.state = "rejected" /\ profiles' = profiles]_vars
    /\ [][signupOp.state = "rejected"
            => signupOp'.state \in {"rejected", "error"}]_vars

\* a signup has written the profile and is about to return to the page
C13_Witness ==
    /\ signupOp.state = "resolved"
    /\ provUser = signupOp.user
    /\ profiles = {ProfileRecord(signupOp.user)}

----------------------------------------------------------------------------
(* Claims about sign-out and the observer (specification SpecLive) *)

\* C14: once signOut has succeeded and left the provider without a user, the
\* store eventually is Anonymous. The callback receives the notifications in
\* the order the provider queued them, each once. The provider queues one
\* Anonymous notification for a sign-out that ends a session, and queues an
\* Authenticated one only for a successful sign-in or account creation: after
\* the Anonymous callback no callback reports a user until a later sign-in.
\* No two callbacks in a row report the same state, so the observer, which
\* is registered from the start, gets the Anonymous transition exactly once.
C14_SignOutReachesObserver ==
    /\ (logoutOp.state = "resolved" /\ provUser = None)
         ~> (~authLoading /\ currentUser = None)
    /\ [][AuthStateChanged
            => currentUser' = Head(notifQ) /\ notifQ' = Tail(notifQ)]_vars
    /\ [][(notifQ' # notifQ /\ ~AuthStateChanged)
            => /\ notifQ' = Append(notifQ, provUser')
               /\ provUser' # provUser
               /\ provUser' = None => SignOutResolves
               /\ provUser' # None
                    => SignInResolves \/ CreateUserResolves]_vars
    /\ [][SignOutResolves
            => /\ provUser' = None
               /\ notifQ' = IF provUser = None THEN notifQ
                             ELSE Append(notifQ, None)]_vars
    /\ []((provUser = None /\ notifQ = <<>>)
            => (~authLoading /\ currentUser = None))
    /\ [](\A i \in 1..(Len(notifQ) - 1) : notifQ[i] # notifQ[i + 1])
    /\ []((~authLoading /\ notifQ # <<>>) => Head(notifQ) # currentUser)

\* the logout of an authenticated user has succeeded and the callback has
\* reported Anonymous, before the handler went on to redirect
C14_Witness ==
    /\ logoutOp.state = "resolved"
    /\ provUser = None /\ notifQ = <<>>
    /\ ~authLoading /\ currentUser = None

----------------------------------------------------------------------------
(* Claims about the list page (specification SpecList) *)

\* C16: when the scan of the collection fails the list the page shows is
\* still empty and the error is set; the list is replaced only by the mapping
\* of a scan that read the whole collection and succeeded, never by the part
\* a failed scan had read.
C16_ListAllOrNothing ==
    /\ [](getDocsReq.state = "rejected"
            => recipes = <<>> /\ listError = FailedToLoadList)
    /\ [][recipes' # recipes
            => \/ /\ GetDocsResolves
                  /\ getDocsReq.scanned = Len(recipesCol)
                  /\ recipes' = ListRecipes(Len(recipesCol))
               \/ CloseRecipes]_vars
    /\ [](Len(recipes) \in {0, Len(recipesCol)})

\* a scan of two documents failed after one of them was read
C16_Witness ==
    /\ getDocsReq = [state |-> "rejected", scanned |-> 1]
    /\ Len(recipesCol) = 2
    /\ recipes = <<>>
    /\ listError = FailedToLoadList
    /\ ~listLoading

----------------------------------------------------------------------------
(* Claims about the consumers of the session store (specification Spec) *)

\* C17: while the store is Unresolved the navigation renders neither the
\* logged-in nor the logged-out links, no child page is rendered and no link
\* is offered; the recipe-creation page does not redirect to /login and the
\* route does not change; the Unresolved state ends with the first callback.
C17_UnresolvedIsNotLoggedOut ==
    /\ [](authLoading
            => /\ NavigationRenders = "nothing"
               /\ ~ChildrenRendered
               /\ Links = {})
    /\ [][authLoading => (~RedirectToLogin /\ route' = route)]_vars
    /\ [][(authLoading /\ ~authLoading') => AuthStateChanged]_vars

\* the creation page was requested by a user with a persisted session: the
\* first callback has reported it and the page is still the creation page
C17_Witness ==
    /\ ~authLoading
    /\ currentUser # None /\ provUser = currentUser
    /\ notifQ = <<>>
    /\ route = "/recipes/new"
    /\ loginOp = IdleOp /\ signupOp = IdleOp /\ logoutOp = IdleOp
    /\ profiles = {}

----------------------------------------------------------------------------
(* Claims about the edit capability (specification SpecDetail) *)

\* the userId of the stored document the page shows, "unknown" when the
\* document has none
ShownUserId == Or(recipesCol[recipe.id].userId, Str(Unknown))

\* C18: on the client page that shows a recipe the edit link is offered if
\* and only if the store is Authenticated and the user's uid equals the
\* userId of the recipe's document; it is never offered while the store is
\* Unresolved or Anonymous, nor to another user, nor for a recipe without a
\* userId, which carries "unknown"; the server component offers none.
C18_EditOnlyForOwner ==
    /\ RecipeShown
         => (EditOffered <=> /\ ~authLoading
                             /\ currentUser # None
                             /\ ShownUserId = Str(Uid(currentUser)))
    /\ EditOffered
         => /\ RecipeShown
            /\ ~authLoading /\ currentUser # None
            /\ recipe.userId # Str(Unknown)
            /\ ShownUserId = Str(Uid(currentUser))
    /\ variant = "server" => ~EditOffered

\* user u1 is shown a recipe of their own and is offered the edit link
C18_Witness ==
    /\ EditOffered
    /\ currentUser = "u1"
    /\ recipesCol[recipe.id] = FullDocument

----------------------------------------------------------------------------
(* Claims about login and the redirects (specification Spec) *)

\* C20: when login has returned successfully the login page routes on to
\* /recipes at once, whether or not the callback has reported the user; and
\* however that return and the callback interleave, the creation page never
\* redirects a user to /login whose session the provider holds.
C20_AuthenticatedNeverRedirected ==
    /\ [][(LoginReturns /\ loginOp.state = "resolved")
            => route' = "/recipes"]_vars
    /\ [][RedirectToLogin => provUser = None]_vars

----------------------------------------------------------------------------
(* Claims about the owner of inserted recipes (specification SpecSession) *)

\* C19: an insert is issued only by a submit, and only while the store is
\* Authenticated; the document carries the uid of the user the store holds at
\* that submit, and the store inserts that document as it is, whatever the
\* session has become by then; so every document sent or stored carries the
\* uid of a user.
C19_InsertCarriesSubmitter ==
    /\ [][(addDocReq' # addDocReq /\ addDocReq' # NoDocument)
            => /\ HandleSubmit
               /\ ~authLoading /\ currentUser # None
               /\ addDocReq'.userId = Str(Uid(currentUser))]_vars
    /\ [][recipesCol' # recipesCol
            => /\ AddDocResolves
               /\ recipesCol' = Append(recipesCol, addDocReq)]_vars
    /\ [](\A d \in SentDocuments : \E u \in Users : d.userId = Str(Uid(u)))

\* a recipe u1 submitted has been stored under u1 and the store has become
\* Anonymous since
C19_Witness ==
    /\ Len(recipesCol) >= 1
    /\ recipesCol[1].userId = Str(Uid("u1"))
    /\ ~authLoading /\ currentUser = None
    /\ provUser = None

----------------------------------------------------------------------------
(* Claims about failures and retries (specification SpecOps) *)

\* C15: a rejected provider or store call of signup, login, logout, list,
\* get-by-id or create ends its operation in a failure: the auth operations
\* rethrow, their pages report the error and do not redirect, and the list,
\* detail and creation pages set their error and show no result or success;
\* and a call is issued only by the step that starts an invocation (for
\* setDoc, by the successful account creation), never again after a failure.
C15_FailuresReachCaller ==
    /\ [][SignInRejects => loginOp'.state = "rejected"]_vars
    /\ [][(LoginReturns /\ loginOp.state = "rejected")
            => (loginOp'.state = "error" /\ route' = route)]_vars
    /\ [][(CreateUserRejects \/ SetDocRejects)
            => signupOp'.state = "rejected"]_vars
    /\ [][(SignupReturns /\ signupOp.state = "rejected")
            => (signupOp'.state = "error" /\ route' = route)]_vars
    /\ [][SignOutRejects => logoutOp'.state = "rejected"]_vars
    /\ [][(LogoutReturns /\ logoutOp.state = "rejected")
            => (logoutOp'.state = "error" /\ route' = route)]_vars
    /\ [][GetDocsRejects
            => /\ getDocsReq'.state = "rejected"
               /\ listError' = FailedToLoadList
               /\ recipes' = recipes]_vars
    /\ [][GetDocRejects
            => /\ getDocReq'.state = "rejected"
               /\ detailError' \in {FailedToLoad, Uncaught}
               /\ recipe' = Null /\ ~notFoundPage']_vars
    /\ [][AddDocRejects
            => /\ formError' = AddFailedMessage
               /\ success' = NoError
               /\ addDocReq' = NoDocument
               /\ recipesCol' = recipesCol /\ route' = route]_vars
    /\ [][(loginOp'.state = "pending" /\ loginOp.state # "pending")
            => LoginSubmit]_vars
    /\ [][(signupOp'.state = "creating" /\ signupOp.state # "creating")
            => SignupSubmit]_vars
    /\ [][(signupOp'.state = "writing" /\ signupOp.state # "writing")
            => CreateUserResolves]_vars
    /\ [][(logoutOp'.state = "pending" /\ logoutOp.state # "pending")
            => LogoutClick]_vars
    /\ [][(getDocsReq'.state = "pending" /\ getDocsReq.state # "pending")
            => OpenRecipes]_vars
    /\ [][(getDocReq'.state = "pending" /\ getDocReq.state # "pending")
            => OpenDetail]_vars
    /\ [][(addDocReq' # NoDocument /\ addDocReq = NoDocument)
            => HandleSubmit]_vars

\* on the creation page an insert and then a logout have failed: the page
\* shows the insert's error, nothing was stored and nobody was redirected
C15_Witness ==
    /\ formError = AddFailedMessage
    /\ success = NoError
    /\ logoutOp.state = "error"
    /\ recipesCol = <<>>
    /\ route = "/recipes/new"
    /\ currentUser # None

----------------------------------------------------------------------------
(* Claims about the end of a submission (specification SpecSubmit) *)

\* C21: every submission ends with loading = false. A rejected draft ends in
\* the submit step itself, with the error set, the form fields and the route
\* unchanged and no success; an accepted draft is loading, with neither
\* outcome set, until the insert is answered, and then ends just once: by the
\* success, with the form reset and the redirect to /recipes, when the
\* insert succeeded, or by the error, with the form fields and the route
\* unchanged, when it failed. Success and error are never both set, success
\* is set by a successful insert only and an error by a failed validation or
\* insert only.
C21_SubmissionEndsInOneOutcome ==
    /\ (formLoading = TRUE) ~> (formLoading = FALSE)
    /\ [](~(success # NoError /\ formError # NoError))
    /\ [](formLoading => (success = NoError /\ formError = NoError))
    /\ [][HandleSubmit
            => IF ValidationFails(Form)
               THEN /\ ~formLoading'
                    /\ formError' # NoError /\ success' = NoError
                    /\ formVars' = formVars /\ route' = route
                    /\ recipesCol' = recipesCol
               ELSE /\ formLoading'
                    /\ formError' = NoError /\ success' = NoError]_vars
    /\ [][AddDocResolves
            => /\ ~formLoading'
               /\ success' # NoError /\ formError' = NoError
               /\ ResetForm
               /\ route' = "/recipes"
               /\ recipesCol' = Append(recipesCol, addDocReq)]_vars
    /\ [][AddDocRejects
            => /\ ~formLoading'
               /\ formError' # NoError /\ success' = NoError
               /\ formVars' = formVars /\ route' = route
               /\ recipesCol' = recipesCol]_vars
    /\ [][(formLoading /\ ~formLoading')
            => (AddDocResolves \/ AddDocRejects)]_vars
    /\ [][(success' # NoError /\ success = NoError) => AddDocResolves]_vars
    /\ [][(formError' # NoError /\ formError' # formError)
            => \/ HandleSubmit /\ ValidationFails(Form)
               \/ AddDocRejects]_vars

\* a complete draft with the optional fields filled in was submitted, the
\* clock went on and the insert failed: the page shows the insert's error
\* over the draft, which is still in the form
C21_Witness ==
    /\ formError = AddFailedMessage
    /\ success = NoError
    /\ ~formLoading
    /\ ~ValidationFails(Form)
    /\ imageUrl = Url
    /\ now = 2
    /\ route = "/recipes/new"
    /\ recipesCol = <<>>

----------------------------------------------------------------------------
(* Claims about the logout handler (specification Spec) *)

\* C22: the logout handler changes the route only after signOut has
\* succeeded, and then to /login; a signOut is recorded as succeeded only by
\* the provider's success. When signOut fails, logout rethrows and the
\* handler ends with the error, without a redirect; the failure and the
\* handler's end leave the provider's user, its queued notifications and the
\* store as they are, and while a logout is under way or has failed the
\* store changes by the callback only: with the session still held and no
\* notification queued, the store is Authenticated with that user.
C22_RedirectOnlyAfterSignOut ==
    /\ [][LogoutReturns
            => IF logoutOp.state = "resolved"
               THEN route' = "/login"
               ELSE /\ logoutOp.state = "rejected"
                    /\ logoutOp'.state = "error"
                    /\ route' = route]_vars
    /\ [][(logoutOp'.state = "resolved" /\ logoutOp.state # "resolved")
            => (SignOutResolves /\ provUser' = None)]_vars
    /\ [][SignOutRejects
            => /\ logoutOp'.state = "rejected"
               /\ UNCHANGED <<provUser, notifQ, authLoading, currentUser,
                              route>>]_vars
    /\ [][(LogoutReturns /\ logoutOp.state = "rejected")
            => UNCHANGED <<provUser, notifQ, authLoading, currentUser>>]_vars
    /\ [][logoutOp.state = "rejected"
            => logoutOp'.state \in {"rejected", "error"}]_vars
    /\ [][(logoutOp.state \in {"pending", "rejected", "error"}
             /\ <<authLoading, currentUser>>' # <<authLoading, currentUser>>)
            => AuthStateChanged]_vars
    /\ []((logoutOp.state \in {"rejected", "error"}
             /\ provUser # None /\ notifQ = <<>>)
            => (~authLoading /\ currentUser = provUser))

\* on the list page the signOut of u1's logout failed and the handler has
\* ended with the error: u1 is still logged in and still on the list page
C22_Witness ==
    /\ logoutOp.state = "error"
    /\ ~authLoading /\ currentUser = "u1"
    /\ provUser = "u1" /\ notifQ = <<>>
    /\ route = "/recipes"
    /\ loginOp = IdleOp /\ signupOp = IdleOp

====
